---------------------------- MODULE Spec2Model ----------------------------
(***************************************************************************)
(* The capture-to-presentation session of CameraScreen.                    *)
(*                                                                         *)
(* The repository holds two versions of the screen: the one with the       *)
(* result overlay (src/unnamed/part_000, state capturedImage, analysis,    *)
(* loading, showModal) and the one with the inline result panel            *)
(* (src/app/(tabs)/camera.tsx, the same state without showModal).  The     *)
(* variable layout says which of the two a behaviour is about; it never    *)
(* changes.                                                                *)
(*                                                                         *)
(* One action is one JavaScript task: a press handler up to its first      *)
(* await, or the continuation that runs when an awaited promise settles.   *)
(* The promises that are pending (camera captures, gallery pickers,        *)
(* service requests) are part of the state.                                *)
(***************************************************************************)
EXTENDS Naturals, Sequences, FiniteSets

\* Bounds of the model.
MaxImages == 3      \* images acquired in one behaviour
MaxPending == 2     \* capture or picker promises pending at once
MaxMarkers == 2     \* heading markers in a text given to the parser

\* useState<string | null>(null): the value of capturedImage when no image is held.
NoImage == 0

\* useState<string>(''): the empty analysis text.
EmptyText == <<>>

\* The non-empty text the service produces for image img (opaque to the session).
TextOf(img) == <<img>>

Layouts == {"modal", "inline"}
Images == 1..MaxImages
Alerts == {"none", "capture", "pick", "config", "analyze"}
Ops == {"init", "takePicture", "captureSettles", "pickImage", "pickSettles",
        "resolve", "reject", "reset", "dismiss"}

VARIABLES
    layout,           \* which screen: "modal" (part_000) or "inline" (camera.tsx)
    hasKey,           \* process.env.EXPO_PUBLIC_GEMINI_API_KEY is set
    capturedImage,    \* useState: NoImage or the image held
    analysis,         \* useState: the analysis text
    loading,          \* useState
    showModal,        \* useState (always FALSE in the inline layout)
    pendingCaptures,  \* takePictureAsync promises not yet settled
    pendingPicks,     \* launchImageLibraryAsync promises not yet settled
    nImages,          \* images handed over by the camera or the gallery so far
    req,              \* generateContent calls, in call order: [img, status]
    alert,            \* the Alert.alert the last step raised, or "none"
    lastOp,           \* history: the step taken last
    failed,           \* history: a cycle failed and no reset has followed
    unhandled,        \* a rejection has escaped its handler uncaught
    rawText,          \* the text handed to formatAnalysisText
    parsed,           \* what formatAnalysisText returned for rawText
    rendered,         \* what renderFormattedContent returned, per section
    ppc               \* how far the overlay's rendering of rawText has got

session == <<capturedImage, analysis, loading, showModal>>
\* The state of the overlay's rendering of a text.
parserVars == <<rawText, parsed, rendered, ppc>>
vars == <<layout, hasKey, capturedImage, analysis, loading, showModal,
          pendingCaptures, pendingPicks, nImages, req, alert, lastOp, failed,
          unhandled, rawText, parsed, rendered, ppc>>

\* The number of generateContent calls made so far.
calls == Len(req)

\* The requests the service has not answered yet.
InFlight == {r \in DOMAIN req : req[r].status = "inflight"}


TypeOK ==
    /\ layout \in Layouts
    /\ hasKey \in BOOLEAN
    /\ capturedImage \in {NoImage} \cup Images
    /\ analysis \in {EmptyText} \cup {TextOf(i) : i \in Images}
    /\ loading \in BOOLEAN
    /\ showModal \in BOOLEAN
    /\ pendingCaptures \in 0..MaxPending
    /\ pendingPicks \in 0..MaxPending
    /\ nImages \in 0..MaxImages
    /\ req \in Seq([img : Images, status : {"inflight", "resolved", "rejected"}])
    /\ alert \in Alerts
    /\ lastOp \in Ops
    /\ failed \in BOOLEAN
    /\ unhandled \in BOOLEAN
    /\ ppc \in {"off", "raw", "formatted", "rendered"}

----------------------------------------------------------------------------
(* What the screen renders, as a function of the state.                    *)

\* The view with the captured image, the indicator and 'Take Another Photo'.
AnalysisView ==
    IF layout = "modal"
    THEN capturedImage # NoImage /\ ~showModal
    ELSE capturedImage # NoImage

\* The result overlay; it is part of the camera view's tree and covers it.
ModalVisible == layout = "modal" /\ ~AnalysisView /\ showModal

\* The capture button and 'Select Photo' are rendered and not covered.
CaptureTriggersShown == ~AnalysisView /\ ~ModalVisible

\* A 'Take Another Photo' button is rendered.
ResetShown == AnalysisView \/ ModalVisible

\* The 'Analyzing room...' indicator is rendered.
AnalyzingIndicator ==
    /\ AnalysisView
    /\ IF layout = "modal"
       THEN TRUE
       ELSE loading \/ analysis = EmptyText

\* The panel that presents the analysis is rendered.
ResultPanelVisible ==
    IF layout = "modal"
    THEN ModalVisible
    ELSE AnalysisView /\ ~loading /\ analysis # EmptyText

----------------------------------------------------------------------------
(* The handlers.                                                           *)

Init ==
    /\ layout \in Layouts
    /\ hasKey \in BOOLEAN
    /\ capturedImage = NoImage
    /\ analysis = EmptyText
    /\ loading = FALSE
    /\ showModal = FALSE
    /\ pendingCaptures = 0
    /\ pendingPicks = 0
    /\ nImages = 0
    /\ req = <<>>
    /\ alert = "none"
    /\ lastOp = "init"
    /\ failed = FALSE
    /\ unhandled = FALSE
    /\ rawText = <<>>
    /\ parsed = <<>>
    /\ rendered = <<>>
    /\ ppc = "off"

\* Mutant of InTry: response.text() called after the try block.
InTryWithoutText(site) ==
    site \in {"takePictureAsync", "launchImageLibraryAsync", "generateContent"}

\* The calls that may throw or reject, and whether the handler makes them
\* inside its try block: takePicture's (takePictureAsync), pickImage's
\* (launchImageLibraryAsync) and analyzeRoom's (generateContent,
\* response.text()).
InTry(site) ==
    site \in {"takePictureAsync", "launchImageLibraryAsync", "generateContent",
              "response.text"}

\* The call at site throws or rejects: the catch clause raises notice, or
\* the rejection leaves the handler uncaught.
Thrown(site, notice) ==
    IF InTry(site)
    THEN alert' = notice /\ UNCHANGED unhandled
    ELSE alert' = "none" /\ unhandled' = TRUE

\* Mutant of KeyMissing: analyzeRoom without its credential check.
KeyCheckSkipped == FALSE

\* if (!process.env.EXPO_PUBLIC_GEMINI_API_KEY)
KeyMissing == ~hasKey

\* analyzeRoom up to its await: the credential check, setLoading(true) and
\* the generateContent call.
analyzeRoom(img) ==
    IF KeyMissing
    THEN /\ alert' = "config"
         /\ failed' = TRUE
         /\ UNCHANGED <<loading, req, unhandled>>
    ELSE /\ loading' = TRUE
         /\ req' = Append(req, [img |-> img, status |-> "inflight"])
         /\ alert' = "none"
         /\ UNCHANGED <<failed, unhandled>>

\* setCapturedImage(uri); analyzeRoom(base64): what takePicture and pickImage
\* do with the image they were handed.
Acquire ==
    /\ nImages < MaxImages
    /\ nImages' = nImages + 1
    /\ capturedImage' = nImages + 1
    /\ analyzeRoom(nImages + 1)
    /\ UNCHANGED <<analysis, showModal>>

\* The capture button is pressed: takePicture up to its await.
takePicture(refCurrent) ==
    /\ CaptureTriggersShown
    /\ IF refCurrent
       THEN /\ pendingCaptures + pendingPicks < MaxPending
            /\ pendingCaptures' = pendingCaptures + 1
       ELSE UNCHANGED pendingCaptures
    /\ alert' = "none"
    /\ lastOp' = "takePicture"
    /\ UNCHANGED <<parserVars, unhandled>>
    /\ UNCHANGED <<layout, hasKey, session, pendingPicks, nImages, req, failed>>

\* takePictureAsync settles: with a photo, with nothing, or by throwing.
CaptureSettles(outcome) ==
    /\ pendingCaptures > 0
    /\ pendingCaptures' = pendingCaptures - 1
    /\ lastOp' = "captureSettles"
    /\ UNCHANGED parserVars
    /\ CASE outcome = "photo" -> Acquire
         [] outcome = "none" ->
               /\ alert' = "none"
               /\ UNCHANGED <<session, nImages, req, failed, unhandled>>
         [] outcome = "throw" ->
               /\ Thrown("takePictureAsync", "capture")
               /\ UNCHANGED <<session, nImages, req, failed>>
    /\ UNCHANGED <<layout, hasKey, pendingPicks>>

\* 'Select Photo' is pressed: pickImage up to its await.
pickImage ==
    /\ CaptureTriggersShown
    /\ pendingCaptures + pendingPicks < MaxPending
    /\ pendingPicks' = pendingPicks + 1
    /\ alert' = "none"
    /\ lastOp' = "pickImage"
    /\ UNCHANGED <<parserVars, unhandled>>
    /\ UNCHANGED <<layout, hasKey, session, pendingCaptures, nImages, req, failed>>

\* Mutant of PickYieldsAsset: pickImage without the test of result.canceled.
PickIgnoresCancel(outcome) == outcome \in {"asset", "canceled"}

\* if (!result.canceled && result.assets[0])
PickYieldsAsset(outcome) == outcome = "asset"

\* launchImageLibraryAsync settles: with an asset, cancelled, or by throwing.
PickSettles(outcome) ==
    /\ pendingPicks > 0
    /\ pendingPicks' = pendingPicks - 1
    /\ lastOp' = "pickSettles"
    /\ UNCHANGED parserVars
    /\ IF outcome = "throw"
       THEN /\ Thrown("launchImageLibraryAsync", "pick")
            /\ UNCHANGED <<session, nImages, req, failed>>
       ELSE IF PickYieldsAsset(outcome)
            THEN Acquire
            ELSE /\ alert' = "none"
                 /\ UNCHANGED <<session, nImages, req, failed, unhandled>>
    /\ UNCHANGED <<layout, hasKey, pendingCaptures>>

\* The texts response.text() may return for request r.
Texts(r) == {EmptyText, TextOf(req[r].img)}

\* Mutant of ClientResolves: setLoading(false) left out of the path taken
\* when the request resolves.
ResolveLeavesLoading(r, text) ==
    /\ r \in InFlight
    /\ req' = [req EXCEPT ![r].status = "resolved"]
    /\ analysis' = text
    /\ showModal' = (layout = "modal")
    /\ alert' = "none"
    /\ lastOp' = "resolve"
    /\ UNCHANGED <<parserVars, unhandled>>
    /\ UNCHANGED <<layout, hasKey, capturedImage, loading, pendingCaptures,
                   pendingPicks, nImages, failed>>

\* generateContent resolves: setAnalysis(response.text()), setShowModal(true)
\* (the modal layout only), and the finally clause's setLoading(false).
ClientResolves(r, text) ==
    /\ r \in InFlight
    /\ req' = [req EXCEPT ![r].status = "resolved"]
    /\ analysis' = text
    /\ showModal' = (layout = "modal")
    /\ loading' = FALSE
    /\ alert' = "none"
    /\ lastOp' = "resolve"
    /\ UNCHANGED <<parserVars, unhandled>>
    /\ UNCHANGED <<layout, hasKey, capturedImage, pendingCaptures, pendingPicks,
                   nImages, failed>>

\* generateContent rejects or response.text() throws: the catch clause's
\* alert, and the finally clause's setLoading(false).
ClientRejects(r) ==
    /\ r \in InFlight
    /\ req' = [req EXCEPT ![r].status = "rejected"]
    /\ loading' = FALSE
    /\ \E site \in {"generateContent", "response.text"} :
           Thrown(site, "analyze")
    /\ failed' = TRUE
    /\ lastOp' = "reject"
    /\ UNCHANGED parserVars
    /\ UNCHANGED <<layout, hasKey, capturedImage, analysis, showModal,
                   pendingCaptures, pendingPicks, nImages>>

\* Mutant of resetAnalysis: setAnalysis('') left out.
ResetKeepsAnalysis ==
    /\ ResetShown
    /\ capturedImage' = NoImage
    /\ showModal' = FALSE
    /\ alert' = "none"
    /\ failed' = FALSE
    /\ lastOp' = "reset"
    /\ UNCHANGED <<parserVars, unhandled>>
    /\ UNCHANGED <<layout, hasKey, analysis, loading, pendingCaptures,
                   pendingPicks, nImages, req>>

\* 'Take Another Photo' is pressed (either button; the overlay's calls
\* setShowModal(false) first).
resetAnalysis ==
    /\ ResetShown
    /\ capturedImage' = NoImage
    /\ analysis' = EmptyText
    /\ showModal' = FALSE
    /\ alert' = "none"
    /\ failed' = FALSE
    /\ lastOp' = "reset"
    /\ UNCHANGED <<parserVars, unhandled>>
    /\ UNCHANGED <<layout, hasKey, loading, pendingCaptures, pendingPicks,
                   nImages, req>>

\* The overlay's close button or the hardware back button.
DismissModal ==
    /\ ModalVisible
    /\ showModal' = FALSE
    /\ alert' = "none"
    /\ lastOp' = "dismiss"
    /\ UNCHANGED <<parserVars, unhandled>>
    /\ UNCHANGED <<layout, hasKey, capturedImage, analysis, loading,
                   pendingCaptures, pendingPicks, nImages, req, failed>>

\* The service answers request r, one way or the other.
ServiceAnswers(r) ==
    /\ r \in InFlight
    /\ \/ \E text \in Texts(r) : ClientResolves(r, text)
       \/ ClientRejects(r)

Next ==
    \/ \E refCurrent \in BOOLEAN : takePicture(refCurrent)
    \/ \E outcome \in {"photo", "none", "throw"} : CaptureSettles(outcome)
    \/ pickImage
    \/ \E outcome \in {"asset", "canceled", "throw"} : PickSettles(outcome)
    \/ \E r \in DOMAIN req : \E text \in Texts(r) : ClientResolves(r, text)
    \/ \E r \in DOMAIN req : ClientRejects(r)
    \/ resetAnalysis
    \/ DismissModal

Spec == Init /\ [][Next]_vars

\* The service eventually answers every request it was sent.
FairSpec == Spec /\ \A r \in Images : WF_vars(ServiceAnswers(r))

----------------------------------------------------------------------------
(* The response section parser of the overlay: formatAnalysisText and      *)
(* renderFormattedContent.  A text is a sequence of one-character strings. *)

\* The character classes \d and \s of the regular expressions.
IsDigit(c) == c \in {"0", "1", "2", "3", "4", "5", "6", "7", "8", "9"}
IsSpace(c) == c \in {" ", "\n", "\t", "\r"}

\* The bullet glyph U+2022 that renderFormattedContent writes.
Glyph == "@"

\* s has character c at position i.
At(s, i, c) == i >= 1 /\ i <= Len(s) /\ s[i] = c

\* The length of the run of digits of s that starts at position i.
RECURSIVE DigitsFrom(_, _)
DigitsFrom(s, i) ==
    IF i <= Len(s) /\ IsDigit(s[i]) THEN 1 + DigitsFrom(s, i + 1) ELSE 0

\* The position of the first c of s at or after position i, or 0.
RECURSIVE IndexFrom(_, _, _)
IndexFrom(s, i, c) ==
    IF i > Len(s) THEN 0
    ELSE IF s[i] = c THEN i ELSE IndexFrom(s, i + 1, c)

\* /\*\*(\d+\.\s*[^:]+:)\*\*/ tried at position i of s: the position of the
\* colon that ends the captured group, or 0 when there is no match at i.
\* The digits must run up to the period, and the label ([^:]+, which must
\* take at least one character) up to the first colon after it.
HeadingColon(s, i) ==
    LET d == DigitsFrom(s, i + 2)
        j == i + 2 + d + 1
        k == IndexFrom(s, j, ":")
    IN  IF /\ At(s, i, "*")
           /\ At(s, i + 1, "*")
           /\ d >= 1
           /\ At(s, i + 2 + d, ".")
           /\ k > j
           /\ At(s, k + 1, "*")
           /\ At(s, k + 2, "*")
        THEN k
        ELSE 0

\* String.prototype.split with the heading expression: the text before each
\* match, then the captured group, and at the end the text after the last
\* match; p is where the current piece starts, q where the search goes on.
RECURSIVE SplitFrom(_, _, _)
SplitFrom(s, p, q) ==
    IF q > Len(s)
    THEN <<SubSeq(s, p, Len(s))>>
    ELSE LET k == HeadingColon(s, q)
         IN  IF k = 0
             THEN SplitFrom(s, p, q + 1)
             ELSE <<SubSeq(s, p, q - 1), SubSeq(s, q + 2, k)>>
                    \o SplitFrom(s, k + 3, k + 3)

\* text.split(/\*\*(\d+\.\s*[^:]+:)\*\*/)
SplitText(s) == IF s = <<>> THEN <<s>> ELSE SplitFrom(s, 1, 1)

\* Boolean(piece), the test of .filter(Boolean): a string is truthy unless
\* it is empty.
Truthy(piece) == piece # <<>>

\* String.prototype.trim, and its two halves.
RECURSIVE TrimStart(_)
TrimStart(s) ==
    IF s # <<>> /\ IsSpace(Head(s)) THEN TrimStart(Tail(s)) ELSE s

RECURSIVE TrimEnd(_)
TrimEnd(s) ==
    IF s # <<>> /\ IsSpace(s[Len(s)])
    THEN TrimEnd(SubSeq(s, 1, Len(s) - 1))
    ELSE s

Trim(s) == TrimEnd(TrimStart(s))

\* heading.replace(/^\d+\.\s*/, '')
StripNumeral(heading) ==
    LET d == DigitsFrom(heading, 1)
    IN  IF d >= 1 /\ At(heading, d + 1, ".")
        THEN TrimStart(SubSeq(heading, d + 2, Len(heading)))
        ELSE heading

\* Mutant of PairAccepted: the test of content left out.
PairAcceptedHeadingOnly(heading, content) == heading # <<>>

\* if (heading && content)
PairAccepted(heading, content) == heading # <<>> /\ content # <<>>

\* The loop of formatAnalysisText from index i (1-based), in steps of two.
RECURSIVE PairUp(_, _)
PairUp(sections, i) ==
    IF i > Len(sections)
    THEN <<>>
    ELSE LET heading == sections[i]
             content == IF i + 1 <= Len(sections) THEN sections[i + 1] ELSE <<>>
         IN  (IF PairAccepted(heading, content)
              THEN <<[heading |-> StripNumeral(heading),
                      content |-> Trim(content)]>>
              ELSE <<>>)
               \o PairUp(sections, i + 2)

formatAnalysisText(text) == PairUp(SelectSeq(SplitText(text), Truthy), 1)

\* content.split('\n')
RECURSIVE SplitLines(_)
SplitLines(s) ==
    LET n == IndexFrom(s, 1, "\n")
    IN  IF n = 0
        THEN <<s>>
        ELSE <<SubSeq(s, 1, n - 1)>> \o SplitLines(SubSeq(s, n + 1, Len(s)))

\* Mutant of LineKept: the filter of blank lines left out.
LineKeptAlways(line) == TRUE

\* .filter(line => line.trim())
LineKept(line) == Trim(line) # <<>>

\* line.trim().startsWith('*')
isSubheading(line) == At(Trim(line), 1, "*")

\* line.replace(/^\*\s*/, '<glyph> ')
ReplaceMarker(line) ==
    IF At(line, 1, "*")
    THEN <<Glyph, " ">> \o TrimStart(Tail(line))
    ELSE line

\* The element rendered for one line: its style and its text.
RenderLine(line) ==
    IF isSubheading(line)
    THEN [kind |-> "SUBPOINT", text |-> ReplaceMarker(line)]
    ELSE [kind |-> "PLAIN", text |-> line]

renderFormattedContent(content) ==
    LET lines == SelectSeq(SplitLines(content), LineKept)
    IN  [i \in DOMAIN lines |-> RenderLine(lines[i])]

\* The overlay renders a text: formatAnalysisText(analysis).map(section =>
\* ... renderFormattedContent(section.content)).
FormatStep ==
    /\ ppc = "raw"
    /\ parsed' = formatAnalysisText(rawText)
    /\ ppc' = "formatted"
    /\ UNCHANGED <<layout, hasKey, session, pendingCaptures, pendingPicks,
                   nImages, req, alert, lastOp, failed, unhandled, rawText,
                   rendered>>

RenderStep ==
    /\ ppc = "formatted"
    /\ rendered' = [k \in DOMAIN parsed |->
                       renderFormattedContent(parsed[k].content)]
    /\ ppc' = "rendered"
    /\ UNCHANGED <<layout, hasKey, session, pendingCaptures, pendingPicks,
                   nImages, req, alert, lastOp, failed, unhandled, rawText,
                   parsed>>

\* The texts the parser is run on: an optional text before the first
\* heading marker, then up to MaxMarkers heading markers, each followed by a
\* content block.
PreTexts ==
    { <<>>,
      <<"a", "\n">>,
      <<"1", ".", " ", "a", ":", "\n">> }

HeadingMarkers ==
    { <<"*", "*", "1", ".", "a", ":", "*", "*">>,
      <<"*", "*", "1", "2", ".", " ", "a", " ", "a", ":", "*", "*">> }

ContentBlocks ==
    { <<>>,
      <<" ">>,
      <<" ", "a">>,
      <<" ", "a", "\n", "*", " ", "a">>,
      <<"\n", "*", " ", "a", "\n", " ", " ", "*", " ", "a", "\n">>,
      <<"\n", "*", " ", "a", "\n", "*", "a">>,
      <<" ", "a", "\n", "\n", " ", "a", " ">> }

RECURSIVE Bodies(_)
Bodies(n) ==
    IF n = 0
    THEN {<<>>}
    ELSE Bodies(n - 1) \cup
         {m \o c \o b : m \in HeadingMarkers, c \in ContentBlocks,
                         b \in Bodies(n - 1)}

ParserInputs == {p \o b : p \in PreTexts, b \in Bodies(MaxMarkers)}

ParseInit ==
    /\ layout = "modal"
    /\ hasKey = TRUE
    /\ capturedImage = NoImage
    /\ analysis = EmptyText
    /\ loading = FALSE
    /\ showModal = FALSE
    /\ pendingCaptures = 0
    /\ pendingPicks = 0
    /\ nImages = 0
    /\ req = <<>>
    /\ alert = "none"
    /\ lastOp = "init"
    /\ failed = FALSE
    /\ unhandled = FALSE
    /\ rawText \in ParserInputs
    /\ parsed = <<>>
    /\ rendered = <<>>
    /\ ppc = "raw"

ParseNext ==
    \/ FormatStep
    \/ RenderStep

ParseSpec == ParseInit /\ [][ParseNext]_vars

----------------------------------------------------------------------------
(* The session states of the specification, read off the screen's state.   *)

\* Nothing is held and nothing is shown.
Idle ==
    /\ capturedImage = NoImage
    /\ analysis = EmptyText
    /\ ~loading
    /\ ~showModal

\* An image is held and its analysis is pending.
Analyzing == capturedImage # NoImage /\ loading

\* A step of takePicture or pickImage: the press, or the settling of the
\* capture or of the picker.
AcquisitionStep ==
    \/ \E refCurrent \in BOOLEAN : takePicture(refCurrent)
    \/ \E outcome \in {"photo", "none", "throw"} : CaptureSettles(outcome)
    \/ pickImage
    \/ \E outcome \in {"asset", "canceled", "throw"} : PickSettles(outcome)

----------------------------------------------------------------------------
(* The claims.                                                             *)

\* C1: at most one analysis request is in flight at any time, and while one
\* is in flight a step of takePicture or pickImage (a press, or a capture or
\* pick that settles now) leaves the session state unchanged and sends no
\* second request.
C1_SingleRequestInFlight ==
    /\ [](Cardinality(InFlight) <= 1)
    /\ [][(InFlight # {} /\ AcquisitionStep)
            => (UNCHANGED session /\ calls' = calls)]_vars

\* C2: when the client rejects while the session is Analyzing(image), the
\* session is left holding the image in a state the rendered view tells
\* apart from Analyzing: the 'Analyzing room...' indicator is gone.
C2_RejectionEntersFailed ==
    [][(Analyzing /\ \E r \in InFlight : ClientRejects(r))
         => (capturedImage' = capturedImage /\ ~AnalyzingIndicator')]_vars

\* C3: whenever the session is analyzing (loading) or showing a result (the
\* result panel is visible or the analysis text is non-empty), an image is
\* held.
C3_ImageHeldWhileAnalyzingOrResult ==
    (loading \/ ResultPanelVisible \/ analysis # EmptyText)
        => capturedImage # NoImage

\* C4: without a credential, handing an image to analyzeRoom raises the
\* configuration notice at once and issues no request: the requests made
\* and the loading flag stay as they were, so no request is ever made.
C4_NoKeyNoRequest ==
    /\ [](~hasKey => (calls = 0 /\ ~loading))
    /\ [][(~hasKey /\ nImages' # nImages)
            => (alert' = "config" /\ req' = req /\ loading' = loading)]_vars

\* C4's case: an image was handed over without a credential.
C4_Witness ==
    /\ ~hasKey
    /\ capturedImage # NoImage
    /\ alert = "config"
    /\ calls = 0

\* C5: a response that resolves with empty text does not produce a Result:
\* the result panel is not shown and an error notice is raised.
C5_EmptyResponseIsFailure ==
    [][(\E r \in InFlight : ClientResolves(r, EmptyText))
         => (~ResultPanelVisible' /\ alert' # "none")]_vars

\* C6: from Idle, a gallery pick that settles cancelled leaves the session
\* state unchanged, raises no notice and sends no request.
C6_CancelledPickChangesNothing ==
    [][(Idle /\ PickSettles("canceled"))
         => (UNCHANGED session /\ alert' = "none" /\ req' = req
             /\ nImages' = nImages)]_vars

\* C6's case: the only thing that has settled is a pick, without an image
\* and without a notice, and the session is Idle.
C6_Witness ==
    /\ lastOp = "pickSettles"
    /\ alert = "none"
    /\ nImages = 0
    /\ Idle

\* C7: right after a reset no image is held, the analysis text is empty and
\* the result panel is hidden, whatever the state the reset was pressed in.
C7_ResetGoesToIdle ==
    [][resetAnalysis
         => (/\ capturedImage' = NoImage
             /\ analysis' = EmptyText
             /\ ~showModal'
             /\ ~ResultPanelVisible')]_vars

\* C7's case: the only image acquired was analyzed, its request was answered
\* (with a text: Result; by a rejection: Failed), and then the reset was
\* pressed.  In the inline layout the reset button is shown only while the
\* image is held, so the reset came after the answer.
C7_Witness ==
    /\ layout = "inline"
    /\ lastOp = "reset"
    /\ nImages = 1
    /\ calls = 1
    /\ InFlight = {}
    /\ Idle

\* C8: when a request resolves with non-empty text while the session is
\* Analyzing(image), the text is stored, the result panel is shown, loading
\* is cleared and the same image is still held.
C8_ResolveCommitsResult ==
    [][\A r \in InFlight :
         (Analyzing /\ ClientResolves(r, TextOf(req[r].img)))
           => (/\ analysis' = TextOf(req[r].img)
               /\ ResultPanelVisible'
               /\ ~loading'
               /\ capturedImage' = capturedImage)]_vars

\* C8's case: the request for the held image has resolved with its text.
C8_Witness ==
    /\ lastOp = "resolve"
    /\ capturedImage # NoImage
    /\ analysis = TextOf(capturedImage)
    /\ ResultPanelVisible

\* C9: every request sent is eventually answered, and the step that answers
\* it clears loading and either stores a result (a non-empty analysis text)
\* or raises an error notice.
C9_RequestsRunToCompletion ==
    /\ \A r \in Images : (r \in InFlight) ~> (r \in DOMAIN req \ InFlight)
    /\ [][(\E r \in InFlight : ServiceAnswers(r))
            => (~loading' /\ (analysis' # EmptyText \/ alert' # "none"))]_vars

\* The part of C9 that is about termination alone.
RequestsEventuallyAnswered ==
    \A r \in Images : (r \in InFlight) ~> (r \in DOMAIN req \ InFlight)

\* C10: no image is sent to the service twice, and once a cycle has failed
\* no request is sent until a reset has been pressed.
C10_NoRetryWithoutReset ==
    /\ [](\A r1, r2 \in DOMAIN req : req[r1].img = req[r2].img => r1 = r2)
    /\ [][failed => calls' = calls]_vars

\* C11: no failure of the capture, the pick or the analysis escapes its
\* handler: no rejection is ever left uncaught, and every step in which
\* takePictureAsync, launchImageLibraryAsync, generateContent or
\* response.text() fails raises an error notice.
C11_FailuresAreCaught ==
    /\ [](~unhandled)
    /\ [][(\/ CaptureSettles("throw")
           \/ PickSettles("throw")
           \/ \E r \in InFlight : ClientRejects(r))
            => alert' \in {"capture", "pick", "analyze"}]_vars

\* C11's case: the analysis failed and its notice was raised.
C11_Witness ==
    /\ lastOp = "reject"
    /\ alert = "analyze"
    /\ ~unhandled

----------------------------------------------------------------------------
(* The parser claims.  What a text contains is read off the text with the  *)
(* heading expression: the text before the first heading marker, the       *)
(* markers, and the content block after each marker.                       *)

Pieces == SplitText(rawText)
NMarkers == (Len(Pieces) - 1) \div 2
PreText == Pieces[1]
Marker(k) == Pieces[2 * k]
Block(k) == Pieces[2 * k + 1]

\* formatAnalysisText has returned.
Formatted == ppc \in {"formatted", "rendered"}

\* The line has a character that is not whitespace.
NonBlankLine(line) == \E i \in DOMAIN line : ~IsSpace(line[i])

\* The line's first non-whitespace character is the bullet marker.
BulletMarked(line) == At(TrimStart(line), 1, "*")

\* The non-blank lines of a content block, in order.
NonBlankLines(content) == SelectSeq(SplitLines(content), NonBlankLine)

\* A heading marker without its numeral, period, whitespace and final colon.
BareLabel(marker) ==
    LET h == StripNumeral(marker)
    IN  IF At(h, Len(h), ":") THEN SubSeq(h, 1, Len(h) - 1) ELSE h

\* C12: a text with N heading markers gives exactly N sections, in the
\* order of the markers, the k-th with the heading derived from the k-th
\* marker.
C12_OneSectionPerMarker ==
    Formatted =>
        /\ Len(parsed) = NMarkers
        /\ \A k \in 1..NMarkers : parsed[k].heading = StripNumeral(Marker(k))

\* C13: text before the first heading marker is discarded and does not
\* shift the pairing: with every content block non-empty, the k-th section
\* pairs the k-th marker with the k-th block, and the text before the first
\* marker is no section's heading.
C13_PreTextDiscarded ==
    (/\ Formatted
     /\ PreText # <<>>
     /\ \A k \in 1..NMarkers : Block(k) # <<>>)
        => /\ Len(parsed) = NMarkers
           /\ \A k \in 1..NMarkers :
                /\ parsed[k].heading = StripNumeral(Marker(k))
                /\ parsed[k].content = Trim(Block(k))
                /\ parsed[k].heading # PreText

\* C14: a heading marker that is followed at once by another marker or by
\* the end of the text still gives a section, in its place, with an empty
\* body.
C14_EmptyBlockKeepsSection ==
    (ppc = "rendered" /\ PreText = <<>>)
        => \A k \in 1..NMarkers :
             Block(k) = <<>>
               => /\ k <= Len(parsed)
                  /\ parsed[k].heading = StripNumeral(Marker(k))
                  /\ rendered[k] = <<>>

\* C15: the heading of a section is the bare label of its marker, without
\* the numeral, the period, the whitespace and the final colon (stated for
\* the texts without text before the first marker and without empty
\* blocks, where sections and markers pair up one to one).
C15_HeadingIsBareLabel ==
    (/\ Formatted
     /\ PreText = <<>>
     /\ \A k \in 1..NMarkers : Block(k) # <<>>)
        => /\ Len(parsed) = NMarkers
           /\ \A k \in 1..NMarkers : parsed[k].heading = BareLabel(Marker(k))

\* C16: when every non-blank line of a section's content is bullet-marked,
\* every line rendered for it is a SUBPOINT whose text has the glyph in the
\* marker's place, whatever whitespace came before the marker.
C16_BulletsBecomeSubpoints ==
    ppc = "rendered" =>
        \A k \in DOMAIN parsed :
            (\A i \in DOMAIN NonBlankLines(parsed[k].content) :
                 BulletMarked(NonBlankLines(parsed[k].content)[i]))
              => \A i \in DOMAIN rendered[k] :
                   /\ rendered[k][i].kind = "SUBPOINT"
                   /\ At(TrimStart(rendered[k][i].text), 1, Glyph)

\* C17: when no line of a section's content is bullet-marked, the lines
\* rendered for it are PLAIN, one per non-blank line of the content, in
\* order, each equal to its line up to trimming; blank lines give no line.
C17_PlainLinesKept ==
    ppc = "rendered" =>
        \A k \in DOMAIN parsed :
            LET expected == NonBlankLines(parsed[k].content)
            IN  (\A i \in DOMAIN expected : ~BulletMarked(expected[i]))
                  => /\ Len(rendered[k]) = Len(expected)
                     /\ \A i \in DOMAIN expected :
                          /\ rendered[k][i].kind = "PLAIN"
                          /\ Trim(rendered[k][i].text) = Trim(expected[i])

\* C17's case: a content with a blank line between two plain lines was
\* rendered as two lines.
C17_Witness ==
    /\ ppc = "rendered"
    /\ \E k \in DOMAIN parsed :
         /\ \A i \in DOMAIN NonBlankLines(parsed[k].content) :
                ~BulletMarked(NonBlankLines(parsed[k].content)[i])
         /\ Len(SplitLines(parsed[k].content)) = 3
         /\ Len(rendered[k]) = 2

\* C18: for the empty text and for any text without a heading marker the
\* parser returns no section.
C18_NoMarkersNoSections ==
    (Formatted /\ NMarkers = 0) => parsed = <<>>

\* C18's case: a non-empty text without a heading marker was parsed.
C18_Witness ==
    /\ ppc = "formatted"
    /\ rawText # <<>>
    /\ NMarkers = 0
    /\ parsed = <<>>

----------------------------------------------------------------------------
(* The session claims about what is shown.                                 *)

\* C19: an analysis text that is stored or shown is the service's answer to
\* the request sent for the image that is held now: never an answer to an
\* earlier image's request, and never a text without an image.
C19_ResultBelongsToHeldImage ==
    analysis # EmptyText
        => (capturedImage # NoImage /\ analysis = TextOf(capturedImage))

\* C20: the 'Analyzing room...' indicator is rendered only while an analysis
\* request is in flight.
C20_IndicatorOnlyWhileInFlight ==
    AnalyzingIndicator => InFlight # {}

----------------------------------------------------------------------------
(* Failures of the acquisition itself.                                     *)

\* The acquisition fails: takePictureAsync throws, launchImageLibraryAsync
\* throws, or the capture button is pressed while cameraRef.current is null.
AcquisitionFails ==
    CaptureSettles("throw") \/ PickSettles("throw") \/ takePicture(FALSE)

\* The part of C21 about the state: a failed acquisition stores no image,
\* leaves loading and the rest of the session as they were, and sends no
\* request.
AcquisitionFailureKeepsSession ==
    [][AcquisitionFails
         => (UNCHANGED session /\ req' = req /\ nImages' = nImages)]_vars

\* C21: when the capture or the pick throws, or the camera is unavailable,
\* the session state is unchanged (no image stored, loading not set, no
\* request sent) and an error notice is raised.
C21_AcquisitionFailureOnlyNotifies ==
    [][AcquisitionFails
         => (/\ UNCHANGED session
             /\ req' = req
             /\ nImages' = nImages
             /\ alert' # "none")]_vars

=============================================================================
